---- MODULE Spec2Model ----
(***************************************************************************)
(* Model of yui-relayer core/path.go: the Path registry (Paths) and the    *)
(* staged path status check Path.QueryPathStatus, with the errgroup.Group  *)
(* the check runs its two per-stage goroutines in.                         *)
(***************************************************************************)
EXTENDS Integers, FiniteSets, Sequences, TLC

\* ------------------------------------------------------------------ bounds
\* number of Path objects on the heap
NumPaths == 2
\* highest height a chain reaches
MaxHeight == 2
\* number of Gen*ID calls made on the Paths before a status check
MaxGen == 1

\* ------------------------------------------------------------- value sets
Sides == {"src", "dst"}
PathRefs == 1..NumPaths
\* the nil *Path
NilRef == 0
\* the nil ibcexported.Height
NilHeight == 0
PathNames == {"a", "b"}
ChainIDs == {"c0", "c1"}
SampleStrings == {"aaaaaaaaaa", "zzzzzzzzzz", "abc"}

\* ------------------------------------------------------------ Path, PathEnd
PathEnd(chainID, clientID, connID, chanID, portID, order, version) ==
    [ChainID |-> chainID, ClientID |-> clientID, ConnectionID |-> connID,
     ChannelID |-> chanID, PortID |-> portID, Order |-> order, Version |-> version]

Path(srcEnd, dstEnd, strategyType) ==
    [Src |-> srcEnd, Dst |-> dstEnd, Strategy |-> [Type |-> strategyType]]

\* the strings crypto/rand can produce for a length: lowercase letters only
RandLowerCaseLetterString(length) == {s \in SampleStrings : Len(s) = length}

\* GenPath handing Dst its order and version the wrong way round
GenPathWithSwapped(ids, srcChainID, dstChainID, srcPortID, dstPortID, order, version) ==
    Path(PathEnd(srcChainID, ids[1], ids[2], ids[3], srcPortID, order, version),
         PathEnd(dstChainID, ids[4], ids[5], ids[6], dstPortID, version, order),
         "naive")

\* GenPath with the six random identifiers passed in
GenPathWith(ids, srcChainID, dstChainID, srcPortID, dstPortID, order, version) ==
    Path(PathEnd(srcChainID, ids[1], ids[2], ids[3], srcPortID, order, version),
         PathEnd(dstChainID, ids[4], ids[5], ids[6], dstPortID, order, version),
         "naive")

GenPath(srcChainID, dstChainID, srcPortID, dstPortID, order, version) ==
    {GenPathWith(ids, srcChainID, dstChainID, srcPortID, dstPortID, order, version) :
        ids \in [1..6 -> RandLowerCaseLetterString(10)]}

\* ------------------------------------------------------------- PathStatus
PathStatus(chains, clients, connection, channel) ==
    [Chains |-> chains, Clients |-> clients, Connection |-> connection, Channel |-> channel]

PathWithStatus(path, status) == [Path |-> path, Status |-> status]

\* ------------------------------------------------------------------ errors
NoError == [kind |-> "nil", side |-> "nil"]
QueryError(kind, s) == [kind |-> kind, side |-> s]

VARIABLES
    heap,       \* PathRef -> Path: the Path objects *Path values point to
    paths,      \* the registry: a map from names to *Path
    op,         \* the registry call made last and what it returned
    chain,      \* side -> the chain's latest height
    gens,       \* Gen*ID calls made so far
    pc,         \* where QueryPathStatus is
    p,          \* the receiver of QueryPathStatus
    task,       \* side -> where the stage's goroutine for that side is
    err,        \* the local err the closures share
    eg,         \* the errgroup.Group: err is the first error a task returned
    srch, dsth,
    srcCs, dstCs,
    srcConn, dstConn,
    srcChan, dstChan,
    out,        \* the *PathWithStatus
    calls,      \* the queries issued on the chains
    rets,       \* what the chains answered
    ret,        \* the Path function or signing function called last and its result
    authority,  \* the ethereum Chain: relayerPrvKey and chainID
    opts,       \* the *bind.TransactOpts TxOpts returned
    signLog     \* the gethcrypto.Sign invocations made

registryVars == <<paths, op>>
resultVars == <<srch, dsth, srcCs, dstCs, srcConn, dstConn, srcChan, dstChan>>
checkVars == <<pc, p, task, err, eg, resultVars, out, calls, rets>>
auxVars == <<ret, authority, opts, signLog>>
vars == <<heap, registryVars, chain, gens, checkVars, auxVars>>

\* ---------------------------------------------------------------- Validate
\* PathEnd.Validate: the ChainID is set and the Order is a recognized one
PathEndValidate(pe) ==
    IF pe.ChainID = "" THEN "invalid path end: empty chain id"
    ELSE IF pe.Order \notin {"ORDERED", "UNORDERED"} THEN "invalid path end: order"
    ELSE "nil"

\* Path.ValidateStrategy: the strategy names a type
ValidateStrategy(path) ==
    IF path.Strategy.Type = "" THEN "invalid strategy: empty type" ELSE "nil"

\* Validate without the comparison of the two orders
ValidateWithoutOrder(path) ==
    IF PathEndValidate(path.Src) # "nil" THEN PathEndValidate(path.Src)
    ELSE IF path.Src.Version = "" THEN "source must specify a version"
    ELSE IF PathEndValidate(path.Dst) # "nil" THEN PathEndValidate(path.Dst)
    ELSE IF ValidateStrategy(path) # "nil" THEN ValidateStrategy(path)
    ELSE "nil"

\* Path.Validate: the first failing check's error, "nil" for none
Validate(path) ==
    IF PathEndValidate(path.Src) # "nil" THEN PathEndValidate(path.Src)
    ELSE IF path.Src.Version = "" THEN "source must specify a version"
    ELSE IF PathEndValidate(path.Dst) # "nil" THEN PathEndValidate(path.Dst)
    ELSE IF ValidateStrategy(path) # "nil" THEN ValidateStrategy(path)
    ELSE IF path.Src.Order # path.Dst.Order THEN "both sides must have same order"
    ELSE "nil"

\* --------------------------------------------------------------------- End
\* &PathEnd{}
ZeroPathEnd == PathEnd("", "", "", "", "", "", "")

\* End testing Src before Dst
EndSrcFirst(path, chainID) ==
    IF path.Src.ChainID = chainID THEN [which |-> "Src", end |-> path.Src]
    ELSE IF path.Dst.ChainID = chainID THEN [which |-> "Dst", end |-> path.Dst]
    ELSE [which |-> "new", end |-> ZeroPathEnd]

\* Path.End: the *PathEnd returned, p.Dst, p.Src or a new one, and its value
End(path, chainID) ==
    IF path.Dst.ChainID = chainID THEN [which |-> "Dst", end |-> path.Dst]
    ELSE IF path.Src.ChainID = chainID THEN [which |-> "Src", end |-> path.Src]
    ELSE [which |-> "new", end |-> ZeroPathEnd]

\* ------------------------------------------------------------------- Paths
\* p[name] = path
Put(m, name, r) == [n \in DOMAIN m \cup {name} |-> IF n = name THEN r ELSE m[n]]

\* Paths{}
EmptyPaths == [n \in {} |-> NilRef]

\* a registry call and what came of it: the error and *Path returned, the
\* Paths returned (PathsFromChains) and whether the overwrite notice was printed
Called(fn, name, r, e) ==
    [fn |-> fn, name |-> name, path |-> r, err |-> e,
     src |-> "", dst |-> "", out |-> EmptyPaths, notice |-> FALSE]

Get(name) ==
    /\ op' = IF name \in DOMAIN paths
             THEN Called("Get", name, paths[name], "nil")
             ELSE Called("Get", name, NilRef, "does not exist")
    /\ UNCHANGED <<heap, paths, chain, gens, auxVars, checkVars>>

\* Add as AddForce: the found check does not return
AddOverwriting(name, r) ==
    /\ LET e == Validate(heap[r]) IN
       /\ op' = Called("Add", name, r, e)
       /\ paths' = IF e # "nil" THEN paths ELSE Put(paths, name, r)
    /\ UNCHANGED <<heap, chain, gens, auxVars, checkVars>>

Add(name, r) ==
    /\ LET e == Validate(heap[r]) IN
       IF e # "nil"
       THEN op' = Called("Add", name, r, e) /\ paths' = paths
       ELSE IF name \in DOMAIN paths
       THEN op' = Called("Add", name, r, "already exists") /\ paths' = paths
       ELSE op' = Called("Add", name, r, "nil") /\ paths' = Put(paths, name, r)
    /\ UNCHANGED <<heap, chain, gens, auxVars, checkVars>>

\* AddForce without the Validate call
AddForceUnvalidated(name, r) ==
    /\ op' = [Called("AddForce", name, r, "nil") EXCEPT !.notice = name \in DOMAIN paths]
    /\ paths' = Put(paths, name, r)
    /\ UNCHANGED <<heap, chain, gens, auxVars, checkVars>>

\* AddForce as Add: a found name is an error
AddForceRejecting(name, r) ==
    /\ LET e == Validate(heap[r]) IN
       IF e # "nil"
       THEN op' = Called("AddForce", name, r, e) /\ paths' = paths
       ELSE IF name \in DOMAIN paths
       THEN op' = Called("AddForce", name, r, "already exists") /\ paths' = paths
       ELSE op' = Called("AddForce", name, r, "nil") /\ paths' = Put(paths, name, r)
    /\ UNCHANGED <<heap, chain, gens, auxVars, checkVars>>

AddForce(name, r) ==
    /\ LET e == Validate(heap[r]) IN
       IF e # "nil"
       THEN op' = Called("AddForce", name, r, e) /\ paths' = paths
       ELSE /\ op' = [Called("AddForce", name, r, "nil") EXCEPT
                        !.notice = name \in DOMAIN paths]
            /\ paths' = Put(paths, name, r)
    /\ UNCHANGED <<heap, chain, gens, auxVars, checkVars>>

\* a match on the direction src -> dst only
MatchesDirected(path, src, dst) == path.Src.ChainID = src /\ path.Dst.ChainID = dst

\* the condition of the range loop
Matches(path, src, dst) ==
    /\ path.Dst.ChainID = src \/ path.Src.ChainID = src
    /\ path.Dst.ChainID = dst \/ path.Src.ChainID = dst

\* what PathsFromChains returns for registry m over the Paths h
FromChains(m, h, src, dst) ==
    LET found == {n \in DOMAIN m : Matches(h[m[n]], src, dst)} IN
    IF found = {}
    THEN [out |-> EmptyPaths, err |-> "failed to find path"]
    ELSE [out |-> [n \in found |-> m[n]], err |-> "nil"]

PathsFromChains(src, dst) ==
    /\ LET res == FromChains(paths, heap, src, dst) IN
       op' = [Called("PathsFromChains", "", NilRef, res.err) EXCEPT
                !.src = src, !.dst = dst, !.out = res.out]
    /\ UNCHANGED <<heap, paths, chain, gens, auxVars, checkVars>>

\* ------------------------------------------------- the chains (environment)
Kinds == <<"LatestHeight", "QueryClientState", "QueryConnection", "QueryChannel">>
ConnStates == {"INIT", "OPEN"}
ChanStates == {"OPEN", "CLOSED"}

\* A call's outcome: an error (with the nil response), or no error with a
\* response: a height, "nil" for an absent response, or a lifecycle state.
Failed == [ok |-> FALSE, height |-> NilHeight, val |-> "nil"]
Answer(h, v) == [ok |-> TRUE, height |-> h, val |-> v]

Outcomes(stage, s) ==
    {Failed} \cup
    CASE stage = 1 -> {Answer(chain[s], "nil")}
      [] stage = 2 -> {Answer(NilHeight, v) : v \in {"nil", "present"}}
      [] stage = 3 -> {Answer(NilHeight, v) : v \in {"nil"} \cup ConnStates}
      [] stage = 4 -> {Answer(NilHeight, v) : v \in {"nil"} \cup ChanStates}

\* a chain produces a block
ChainAdvance(s) ==
    /\ chain[s] < MaxHeight
    /\ chain' = [chain EXCEPT ![s] = @ + 1]
    /\ UNCHANGED <<heap, registryVars, gens, auxVars, checkVars>>

\* ------------------------------------------------------- Gen*ID (mutators)
GenID(r, end, field) ==
    /\ pc = "idle"
    /\ gens < MaxGen
    /\ gens' = gens + 1
    /\ \E id \in RandLowerCaseLetterString(10) :
          heap' = [heap EXCEPT ![r][end][field] = id]
    /\ UNCHANGED <<registryVars, chain, checkVars, auxVars>>

GenSrcClientID == \E r \in DOMAIN heap : GenID(r, "Src", "ClientID")
GenDstClientID == \E r \in DOMAIN heap : GenID(r, "Dst", "ClientID")
GenSrcConnID == \E r \in DOMAIN heap : GenID(r, "Src", "ConnectionID")
GenDstConnID == \E r \in DOMAIN heap : GenID(r, "Dst", "ConnectionID")
GenSrcChanID == \E r \in DOMAIN heap : GenID(r, "Src", "ChannelID")
GenDstChanID == \E r \in DOMAIN heap : GenID(r, "Dst", "ChannelID")

\* ------------------------------------------------------ QueryPathStatus
WaitPCs == {"wait1", "wait2", "wait3", "wait4"}
StageOf(l) == CASE l = "wait1" -> 1 [] l = "wait2" -> 2 [] l = "wait3" -> 3
                [] l = "wait4" -> 4 [] OTHER -> 0

\* eg.Go twice: one goroutine per side
Spawn == [s \in Sides |-> "spawned"]
\* a join that returns at the first goroutine to finish
JoinedAny == \E s \in Sides : task[s] = "done"
\* eg.Wait: wg.Wait() returns once every goroutine has called wg.Done()
Joined == \A s \in Sides : task[s] = "done"

\* a Begin that regenerates an identifier of its receiver
BeginMutating(r) ==
    /\ pc = "idle"
    /\ p' = r
    /\ out' = PathWithStatus(r, PathStatus(FALSE, FALSE, FALSE, FALSE))
    /\ task' = Spawn
    /\ pc' = "wait1"
    /\ heap' = [heap EXCEPT ![r].Src.ClientID = "zzzzzzzzzz"]
    /\ UNCHANGED <<registryVars, chain, gens, auxVars, err, eg, resultVars, calls, rets>>

\* the declarations and the two eg.Go of stage 1
Begin(r) ==
    /\ pc = "idle"
    /\ p' = r
    /\ out' = PathWithStatus(r, PathStatus(FALSE, FALSE, FALSE, FALSE))
    /\ task' = Spawn
    /\ pc' = "wait1"
    /\ UNCHANGED <<heap, registryVars, chain, gens, auxVars, err, eg, resultVars, calls, rets>>

\* the height a closure passes to NewQueryContext
HeightArg(stage, s) ==
    IF stage = 1 THEN NilHeight ELSE IF s = "src" THEN srch ELSE dsth

\* a goroutine issues its query
Call(s) ==
    /\ pc \in WaitPCs
    /\ task[s] = "spawned"
    /\ task' = [task EXCEPT ![s] = "called"]
    /\ calls' = calls \cup {[kind |-> Kinds[StageOf(pc)], side |-> s,
                             height |-> HeightArg(StageOf(pc), s)]}
    /\ UNCHANGED <<heap, registryVars, chain, gens, auxVars, pc, p, err, eg, resultVars, out, rets>>

\* the query returns: `x, err = chain.Query(...)` assigns the response to the
\* side's variable of the stage and the error to the shared err
Assign(s) ==
    /\ pc \in WaitPCs
    /\ task[s] = "called"
    /\ \E r \in Outcomes(StageOf(pc), s) :
        LET st == StageOf(pc) IN
        /\ err' = IF r.ok THEN NoError ELSE QueryError(Kinds[st], s)
        /\ srch' = IF st = 1 /\ s = "src" THEN r.height ELSE srch
        /\ dsth' = IF st = 1 /\ s = "dst" THEN r.height ELSE dsth
        /\ srcCs' = IF st = 2 /\ s = "src" THEN r.val ELSE srcCs
        /\ dstCs' = IF st = 2 /\ s = "dst" THEN r.val ELSE dstCs
        /\ srcConn' = IF st = 3 /\ s = "src" THEN r.val ELSE srcConn
        /\ dstConn' = IF st = 3 /\ s = "dst" THEN r.val ELSE dstConn
        /\ srcChan' = IF st = 4 /\ s = "src" THEN r.val ELSE srcChan
        /\ dstChan' = IF st = 4 /\ s = "dst" THEN r.val ELSE dstChan
        /\ rets' = rets \cup {[kind |-> Kinds[st], side |-> s, ok |-> r.ok,
                               height |-> r.height, val |-> r.val]}
    /\ task' = [task EXCEPT ![s] = "assigned"]
    /\ UNCHANGED <<heap, registryVars, chain, gens, auxVars, pc, p, eg, out, calls>>

\* errgroup: errOnce.Do(func() { g.err = err }) for a non-nil error
ErrOnce(g, e) == IF e # NoError /\ g.err = NoError THEN [g EXCEPT !.err = e] ELSE g

\* `return err`: the closure reads the shared err again and hands it to the
\* group, then wg.Done()
Return(s) ==
    /\ pc \in WaitPCs
    /\ task[s] = "assigned"
    /\ eg' = ErrOnce(eg, err)
    /\ task' = [task EXCEPT ![s] = "done"]
    /\ UNCHANGED <<heap, registryVars, chain, gens, auxVars, pc, p, err, resultVars, out, calls, rets>>

\* the stage 1 assignment writing the stage 2 flag
SetChainsAsClients(st) == [st EXCEPT !.Clients = TRUE]
SetChains(st) == [st EXCEPT !.Chains = TRUE]
SetClients(st) == [st EXCEPT !.Clients = TRUE]
SetConnection(st) == [st EXCEPT !.Connection = TRUE]
SetChannel(st) == [st EXCEPT !.Channel = TRUE]

\* `if eg.Wait(); err != nil`: the join's result is dropped, the shared err decides
Wait1 ==
    /\ pc = "wait1"
    /\ Joined
    /\ IF err # NoError
       THEN pc' = "returned" /\ UNCHANGED <<out, task>>
       ELSE /\ out' = [out EXCEPT !.Status = SetChains(@)]
            /\ task' = Spawn
            /\ pc' = "wait2"
    /\ UNCHANGED <<heap, registryVars, chain, gens, auxVars, p, err, eg, resultVars, calls, rets>>

\* `if err = eg.Wait(); err != nil || srcCs == nil || dstCs == nil`
Wait2 ==
    /\ pc = "wait2"
    /\ Joined
    /\ err' = eg.err
    /\ IF eg.err # NoError \/ srcCs = "nil" \/ dstCs = "nil"
       THEN pc' = "returned" /\ UNCHANGED <<out, task>>
       ELSE /\ out' = [out EXCEPT !.Status = SetClients(@)]
            /\ task' = Spawn
            /\ pc' = "wait3"
    /\ UNCHANGED <<heap, registryVars, chain, gens, auxVars, p, eg, resultVars, calls, rets>>

\* a verdict that leaves the Dst operand out
VerdictSrcOnly(e, a, b) ==
    IF e # NoError THEN "return"
    ELSE IF a = "nil" THEN "panic"
    ELSE IF a # "OPEN" THEN "return"
    ELSE "pass"

\* `err != nil || a.X.State != OPEN || b.X.State != OPEN`, left to right:
\* a nil response is dereferenced when its operand is reached
Verdict(e, a, b) ==
    IF e # NoError THEN "return"
    ELSE IF a = "nil" THEN "panic"
    ELSE IF a # "OPEN" THEN "return"
    ELSE IF b = "nil" THEN "panic"
    ELSE IF b # "OPEN" THEN "return"
    ELSE "pass"

Wait3 ==
    /\ pc = "wait3"
    /\ Joined
    /\ err' = eg.err
    /\ LET v == Verdict(eg.err, srcConn, dstConn) IN
       IF v = "pass"
       THEN /\ out' = [out EXCEPT !.Status = SetConnection(@)]
            /\ task' = Spawn
            /\ pc' = "wait4"
       ELSE /\ pc' = IF v = "panic" THEN "panicked" ELSE "returned"
            /\ UNCHANGED <<out, task>>
    /\ UNCHANGED <<heap, registryVars, chain, gens, auxVars, p, eg, resultVars, calls, rets>>

Wait4 ==
    /\ pc = "wait4"
    /\ Joined
    /\ err' = eg.err
    /\ LET v == Verdict(eg.err, srcChan, dstChan) IN
       IF v = "pass"
       THEN /\ out' = [out EXCEPT !.Status = SetChannel(@)]
            /\ pc' = "returned"
       ELSE /\ pc' = IF v = "panic" THEN "panicked" ELSE "returned"
            /\ UNCHANGED out
    /\ UNCHANGED <<heap, registryVars, chain, gens, auxVars, p, task, eg, resultVars, calls, rets>>

\* ------------------------------------------------------------------- Spec
NoOp == Called("none", "", NilRef, "nil")

NoRet == [fn |-> "none"]
NoOpts == [From |-> "", GasLimit |-> 0]

InitAux ==
    /\ ret = NoRet
    /\ authority = [relayerPrvKey |-> "k1", chainID |-> "1"]
    /\ opts = NoOpts
    /\ signLog = {}

InitCheck ==
    /\ pc = "idle"
    /\ p = NilRef
    /\ task = [s \in Sides |-> "none"]
    /\ err = NoError
    /\ eg = [err |-> NoError]
    /\ srch = NilHeight /\ dsth = NilHeight
    /\ srcCs = "nil" /\ dstCs = "nil"
    /\ srcConn = "nil" /\ dstConn = "nil"
    /\ srcChan = "nil" /\ dstChan = "nil"
    /\ out = PathWithStatus(NilRef, PathStatus(FALSE, FALSE, FALSE, FALSE))
    /\ calls = {}
    /\ rets = {}

Init ==
    /\ heap = [r \in {1} |->
                GenPathWith([i \in 1..6 |-> "aaaaaaaaaa"], "c0", "c1", "transfer",
                            "transfer", "UNORDERED", "ics20-1")]
    /\ paths = EmptyPaths
    /\ op = NoOp
    /\ chain = [s \in Sides |-> 1]
    /\ gens = 0
    /\ InitCheck
    /\ InitAux

Next ==
    \/ GenSrcClientID \/ GenDstClientID
    \/ GenSrcConnID \/ GenDstConnID
    \/ GenSrcChanID \/ GenDstChanID
    \/ \E s \in Sides : ChainAdvance(s)
    \/ \E r \in DOMAIN heap : Begin(r)
    \/ \E s \in Sides : Call(s)
    \/ \E s \in Sides : Assign(s)
    \/ \E s \in Sides : Return(s)
    \/ Wait1 \/ Wait2 \/ Wait3 \/ Wait4

Spec == Init /\ [][Next]_vars

\* ------------------------------------------------------------ SpecPaths
\* the registry on its own: the Paths callers hand to Add and AddForce
SampleIDs == [i \in 1..6 |-> "aaaaaaaaaa"]
SampleEnd(chainID, order, version) ==
    PathEnd(chainID, "aaaaaaaaaa", "aaaaaaaaaa", "aaaaaaaaaa", "transfer", order, version)
SamplePaths ==
    {GenPathWith(SampleIDs, s, d, "transfer", "transfer", "UNORDERED", "ics20-1") :
        s \in ChainIDs, d \in ChainIDs}
    \cup {GenPathWith(SampleIDs, "c0", "c1", "transfer", "transfer", "UNORDERED", ""),
          Path(SampleEnd("c0", "ORDERED", "ics20-1"), SampleEnd("c1", "ORDERED", ""), "naive"),
          Path(SampleEnd("c0", "ORDERED", "ics20-1"), SampleEnd("c1", "UNORDERED", "ics20-1"), "naive"),
          Path(SampleEnd("c0", "ORDERED", "ics20-1"), SampleEnd("c1", "ORDERED", "ics20-1"), "")}

InitPaths ==
    /\ heap \in [PathRefs -> SamplePaths]
    /\ paths = EmptyPaths
    /\ op = NoOp
    /\ chain = [s \in Sides |-> 1]
    /\ gens = 0
    /\ InitCheck
    /\ InitAux

NextPaths ==
    \/ \E name \in PathNames : Get(name)
    \/ \E name \in PathNames, r \in PathRefs : Add(name, r)
    \/ \E name \in PathNames, r \in PathRefs : AddForce(name, r)
    \/ \E src \in ChainIDs, dst \in ChainIDs : PathsFromChains(src, dst)

SpecPaths == InitPaths /\ [][NextPaths]_vars

\* ------------------------------------------------------------- SpecPath
\* one Path, made by its caller or by GenPath, and the calls on it
ArgChainIDs == {"", "c0", "c1"}
ArgOrders == {"ORDERED", "UNORDERED", "NONE"}
ArgVersions == {"", "ics20-1"}
AllEnds ==
    {SampleEnd(c, o, v) : c \in ArgChainIDs, o \in ArgOrders, v \in ArgVersions}
AllPaths == {Path(s, d, t) : s \in AllEnds, d \in AllEnds, t \in {"", "naive"}}
NoPaths == [r \in {} |-> ZeroPathEnd]

InitPath ==
    /\ heap = NoPaths
    /\ paths = EmptyPaths
    /\ op = NoOp
    /\ chain = [s \in Sides |-> 1]
    /\ gens = 0
    /\ InitCheck
    /\ InitAux

\* &Path{Src: ..., Dst: ..., Strategy: ...}
NewPath ==
    /\ DOMAIN heap = {}
    /\ \E path \in AllPaths : heap' = [r \in {1} |-> path]
    /\ ret' = [fn |-> "new", path |-> 1]
    /\ UNCHANGED <<registryVars, chain, gens, checkVars, authority, opts, signLog>>

CallGenPath ==
    /\ DOMAIN heap = {}
    /\ \E srcChainID \in ArgChainIDs, dstChainID \in ArgChainIDs,
          order \in ArgOrders, version \in ArgVersions :
        /\ \E path \in GenPath(srcChainID, dstChainID, "transfer", "transfer", order, version) :
              heap' = [r \in {1} |-> path]
        /\ ret' = [fn |-> "GenPath", path |-> 1, srcChainID |-> srcChainID,
                   dstChainID |-> dstChainID, order |-> order, version |-> version]
    /\ UNCHANGED <<registryVars, chain, gens, checkVars, authority, opts, signLog>>

CallValidate ==
    /\ \E r \in DOMAIN heap :
          ret' = [fn |-> "Validate", path |-> r, err |-> Validate(heap[r])]
    /\ UNCHANGED <<heap, registryVars, chain, gens, checkVars, authority, opts, signLog>>

CallEnd ==
    /\ \E r \in DOMAIN heap, chainID \in ArgChainIDs :
          LET e == End(heap[r], chainID) IN
          ret' = [fn |-> "End", path |-> r, chainID |-> chainID,
                  which |-> e.which, end |-> e.end]
    /\ UNCHANGED <<heap, registryVars, chain, gens, checkVars, authority, opts, signLog>>

NextPath == NewPath \/ CallGenPath \/ CallValidate \/ CallEnd

SpecPath == InitPath /\ [][NextPath]_vars

\* --------------------------------------------------------------- SpecTx
\* the ethereum Chain's TxOpts and the signing function it returns
PrvKeys == {"k1", "k2"}
EthChainIDs == {"1", "5"}
Addresses == {"0xA1", "0xA2", "0xB0"}
Txs == {"tx1", "tx2", "tx3"}
GasLimit == 6382056

\* gethcrypto.PubkeyToAddress(prv.PublicKey): one address per key
PubkeyToAddress(prv) == CASE prv = "k1" -> "0xA1" [] prv = "k2" -> "0xA2"

\* signer.Hash(tx): the EIP155 digest binds the chain ID
Hash(chainID, tx) == <<chainID, tx>>

\* the nil *gethtypes.Transaction
NoTx == [tx |-> "nil", signature |-> <<>>]
\* tx.WithSignature(signer, signature): a copy of tx carrying the signature
WithSignature(tx, signature) == [tx |-> tx, signature |-> signature]

InitTx ==
    /\ heap = NoPaths
    /\ paths = EmptyPaths
    /\ op = NoOp
    /\ chain = [s \in Sides |-> 1]
    /\ gens = 0
    /\ InitCheck
    /\ ret = NoRet
    /\ authority \in [relayerPrvKey : PrvKeys, chainID : EthChainIDs]
    /\ opts = NoOpts
    /\ signLog = {}

TxOpts ==
    /\ opts' = [From |-> PubkeyToAddress(authority.relayerPrvKey),
                GasLimit |-> GasLimit,
                prv |-> authority.relayerPrvKey,
                signer |-> authority.chainID]
    /\ ret' = [fn |-> "TxOpts"]
    /\ UNCHANGED <<heap, registryVars, chain, gens, checkVars, authority, signLog>>

\* gethcrypto.Sign is reached: it signs the digest or fails
Sign(address, tx) ==
    /\ signLog' = signLog \cup {[address |-> address, digest |-> Hash(opts.signer, tx),
                                 prv |-> opts.prv]}
    /\ \E signed \in BOOLEAN :
          ret' = [fn |-> "Signer", address |-> address, tx |-> tx,
                  signed |-> IF signed
                             THEN WithSignature(tx, <<Hash(opts.signer, tx), opts.prv>>)
                             ELSE NoTx,
                  err |-> IF signed THEN "nil" ELSE "sign failed"]

\* the signing function without its address test
SignerUnchecked(address, tx) ==
    /\ opts # NoOpts
    /\ Sign(address, tx)
    /\ UNCHANGED <<heap, registryVars, chain, gens, checkVars, authority, opts>>

\* opts.Signer(address, tx)
Signer(address, tx) ==
    /\ opts # NoOpts
    /\ IF address # opts.From
       THEN /\ ret' = [fn |-> "Signer", address |-> address, tx |-> tx,
                       signed |-> NoTx, err |-> "not authorized to sign this account"]
            /\ signLog' = signLog
       ELSE Sign(address, tx)
    /\ UNCHANGED <<heap, registryVars, chain, gens, checkVars, authority, opts>>

NextTx ==
    \/ TxOpts
    \/ \E address \in Addresses, tx \in Txs : Signer(address, tx)

SpecTx == InitTx /\ [][NextTx]_vars

\* ================================================================ properties
AllFalse == PathStatus(FALSE, FALSE, FALSE, FALSE)
Terminal == {"returned", "panicked"}
StageOfKind(kind) == CHOOSE k \in 1..4 : Kinds[k] = kind
Returned(kind, s) == {r \in rets : r.kind = kind /\ r.side = s}

\* stage k's two queries returned without error and the stage's condition held
StageHeld(k) ==
    \A s \in Sides : \E r \in Returned(Kinds[k], s) :
        /\ r.ok
        /\ k = 2 => r.val # "nil"
        /\ k \in {3, 4} => r.val = "OPEN"

LatestHeightFailed == \E r \in rets : r.kind = "LatestHeight" /\ ~r.ok

\* C1: once a LatestHeight call has returned an error and stage 1 is judged,
\* the check has returned, all four flags are false and no query of a later
\* stage was issued.
C1_LatestHeightErrorStops ==
    (pc \notin {"idle", "wait1"} /\ LatestHeightFailed) =>
        /\ pc = "returned"
        /\ out.Status = AllFalse
        /\ \A c \in calls : c.kind = "LatestHeight"

\* C2: a check that returns after both LatestHeight calls succeeded returns
\* the longest successful prefix of stages 2..4.
C2_LongestSuccessfulPrefix ==
    (pc = "returned" /\ StageHeld(1)) =>
        out.Status = PathStatus(TRUE,
                                StageHeld(2),
                                StageHeld(2) /\ StageHeld(3),
                                StageHeld(2) /\ StageHeld(3) /\ StageHeld(4))

C2_Witness ==
    /\ pc = "returned"
    /\ StageHeld(1)
    /\ out.Status = PathStatus(TRUE, TRUE, TRUE, FALSE)
    /\ srcChan = "OPEN"
    /\ dstChan = "CLOSED"

\* C3: a query of stage N+1 is issued only if both queries of stage N returned
\* without error and stage N's condition held.
C3_StagesSequential ==
    \A c \in calls : \A k \in 1..3 : StageOfKind(c.kind) = k + 1 => StageHeld(k)

\* C4: at every moment the status is a staged prefix, and no step clears a flag.
C4_StagedPrefix ==
    /\ [](/\ out.Status.Channel => out.Status.Connection
          /\ out.Status.Connection => out.Status.Clients
          /\ out.Status.Clients => out.Status.Chains)
    /\ [][/\ out.Status.Chains => out'.Status.Chains
          /\ out.Status.Clients => out'.Status.Clients
          /\ out.Status.Connection => out'.Status.Connection
          /\ out.Status.Channel => out'.Status.Channel]_vars

C4_Witness == pc = "returned" /\ out.Status = PathStatus(TRUE, TRUE, TRUE, TRUE)

\* C5: the check never aborts: it does not panic, whatever the queries return.
C5_NeverAborts == pc # "panicked"

\* C6: every query of stages 2..4 is issued with the height a successful
\* LatestHeight call on that side returned.
C6_HeightsFromLatestHeight ==
    \A c \in calls : c.kind # "LatestHeight" =>
        \E r \in Returned("LatestHeight", c.side) : r.ok /\ r.height = c.height

\* C7: when a stage is judged both its queries have been issued and have
\* returned, a failed sibling or not; nothing is in flight once the check ends.
C7_BothRunToCompletion ==
    /\ pc \in Terminal => \A s \in Sides : task[s] = "done"
    /\ \A k \in 1..4 : \A s \in Sides :
          (k < StageOf(pc) \/ (pc \in Terminal /\ \E c \in calls : c.kind = Kinds[k])) =>
              /\ \E c \in calls : c.kind = Kinds[k] /\ c.side = s
              /\ Returned(Kinds[k], s) # {}
    /\ \A s \in Sides : task[s] \in {"called", "assigned"} =>
          /\ pc \in WaitPCs
          /\ \E c \in calls : c.kind = Kinds[StageOf(pc)] /\ c.side = s

C7_Witness ==
    /\ pc = "returned"
    /\ \E r \in Returned("LatestHeight", "src") : ~r.ok
    /\ \E r \in Returned("LatestHeight", "dst") : r.ok /\ r.height = MaxHeight

\* C8: the returned status is the conjunction of the queries' outcomes, stage
\* by stage, whichever task of a stage completes first.
C8_StatusIsFunctionOfOutcomes ==
    pc = "returned" =>
        out.Status = PathStatus(StageHeld(1),
                                StageHeld(1) /\ StageHeld(2),
                                StageHeld(1) /\ StageHeld(2) /\ StageHeld(3),
                                StageHeld(1) /\ StageHeld(2) /\ StageHeld(3) /\ StageHeld(4))

\* C9: no step of the check changes a Path, the registry or a chain, and the
\* result carries the receiver.
C9_OnlyReads ==
    /\ [](pc # "idle" => out.Path = p /\ p \in DOMAIN heap)
    /\ [][checkVars' # checkVars =>
            /\ heap' = heap
            /\ chain' = chain
            /\ paths' = paths]_vars

C9_Witness ==
    /\ pc = "returned"
    /\ out.Path = p
    /\ heap[p].Dst.ChannelID = "zzzzzzzzzz"
    /\ out.Status.Channel

\* C10: Add with a name the registry holds returns an error and changes
\* neither the registry nor a Path.
C10_AddDuplicateRejected ==
    [][(op'.fn = "Add" /\ op'.name \in DOMAIN paths) =>
          /\ op'.err # "nil"
          /\ paths' = paths
          /\ heap' = heap]_vars

C10_Witness ==
    /\ op.fn = "Add"
    /\ op.err = "already exists"
    /\ op.name \in DOMAIN paths
    /\ paths[op.name] # op.path

\* C11: AddForce with a valid Path succeeds; the name then maps to the new
\* Path, whether it was present (the notice is printed) or not (as Add inserts),
\* every other entry is as before, and Get returns what the registry holds.
C11_AddForceOverwrites ==
    /\ [][(op'.fn = "AddForce" /\ Validate(heap[op'.path]) = "nil") =>
            /\ op'.err = "nil"
            /\ op'.notice = (op'.name \in DOMAIN paths)
            /\ DOMAIN paths' = DOMAIN paths \cup {op'.name}
            /\ paths'[op'.name] = op'.path
            /\ \A n \in DOMAIN paths \ {op'.name} : paths'[n] = paths[n]
            /\ heap' = heap]_vars
    /\ [][(op'.fn = "Get" /\ op'.name \in DOMAIN paths) =>
            /\ op'.err = "nil"
            /\ op'.path = paths[op'.name]
            /\ paths' = paths]_vars

C11_Witness ==
    /\ op.fn = "AddForce"
    /\ op.notice
    /\ op.err = "nil"
    /\ paths[op.name] = op.path
    /\ \E n \in DOMAIN paths : n # op.name /\ paths[n] # op.path

\* the registered names whose Path has exactly the chain ID set {src, dst}
ChainSetNames(src, dst) ==
    {n \in DOMAIN paths :
        {heap[paths[n]].Src.ChainID, heap[paths[n]].Dst.ChainID} = {src, dst}}

\* C12: PathsFromChains returns exactly the registered Paths whose chain ID
\* set equals {src, dst}, src = dst included, and an error exactly when there
\* is none.
C12_ExactChainSet ==
    op.fn = "PathsFromChains" =>
        /\ DOMAIN op.out = ChainSetNames(op.src, op.dst)
        /\ \A n \in DOMAIN op.out : op.out[n] = paths[n]
        /\ (op.err # "nil") <=> (ChainSetNames(op.src, op.dst) = {})

\* C13: PathsFromChains(a, b) and PathsFromChains(b, a) return the same Paths,
\* or both fail.
C13_ArgumentOrder ==
    /\ \A a \in ChainIDs, b \in ChainIDs :
          FromChains(paths, heap, a, b) = FromChains(paths, heap, b, a)
    /\ op.fn = "PathsFromChains" =>
          [out |-> op.out, err |-> op.err] = FromChains(paths, heap, op.dst, op.src)

C13_Witness ==
    /\ op.fn = "PathsFromChains"
    /\ op.src = "c1"
    /\ op.dst = "c0"
    /\ op.err = "nil"
    /\ \E n \in DOMAIN op.out :
          heap[op.out[n]].Src.ChainID = "c0" /\ heap[op.out[n]].Dst.ChainID = "c1"

\* C19: every Path the registry holds passes Validate, and Add or AddForce of
\* a Path that fails Validate returns an error and leaves the mapping as it was.
C19_OnlyValidPathsStored ==
    /\ [](\A n \in DOMAIN paths : Validate(heap[paths[n]]) = "nil")
    /\ [][(op'.fn \in {"Add", "AddForce"} /\ Validate(heap[op'.path]) # "nil") =>
            /\ op'.err # "nil"
            /\ paths' = paths]_vars

C19_Witness ==
    /\ op.fn = "AddForce"
    /\ op.err # "nil"
    /\ Validate(heap[op.path]) # "nil"
    /\ op.name \in DOMAIN paths
    /\ Validate(heap[paths[op.name]]) = "nil"

\* C18: the group keeps a LatestHeight error for the stage 2 join, so Clients
\* is set only if both LatestHeight calls returned without error.
C18_LatestHeightErrorReachesStage2 == out.Status.Clients => StageHeld(1)

\* C14: Validate succeeds iff both ends are valid, both versions are non-empty
\* and the orders are equal.
C14_ValidateIffBothVersions ==
    ret.fn = "Validate" =>
        LET path == heap[ret.path] IN
        (ret.err = "nil") <=>
            /\ PathEndValidate(path.Src) = "nil"
            /\ PathEndValidate(path.Dst) = "nil"
            /\ path.Src.Version # ""
            /\ path.Dst.Version # ""
            /\ path.Src.Order = path.Dst.Order

\* C14, amended: Validate succeeds iff both ends are valid, Src's version is
\* non-empty, the strategy is valid and the orders are equal; Dst's version is
\* not looked at.
C14_ValidateIff ==
    ret.fn = "Validate" =>
        LET path == heap[ret.path] IN
        (ret.err = "nil") <=>
            /\ PathEndValidate(path.Src) = "nil"
            /\ PathEndValidate(path.Dst) = "nil"
            /\ path.Src.Version # ""
            /\ ValidateStrategy(path) = "nil"
            /\ path.Src.Order = path.Dst.Order

C14_Witness ==
    /\ ret.fn = "Validate"
    /\ ret.err = "nil"
    /\ heap[ret.path].Dst.Version = ""
    /\ heap[ret.path].Src.Order = "ORDERED"

\* C15: the Path GenPath returns passes Validate, whatever the arguments.
C15_GenPathAlwaysValid ==
    ret.fn = "GenPath" => Validate(heap[ret.path]) = "nil"

\* C15, amended: the Path GenPath returns passes Validate when both chain IDs
\* and the version are non-empty and the order is a recognized one.
C15_GenPathValid ==
    (/\ ret.fn = "GenPath"
     /\ ret.srcChainID # ""
     /\ ret.dstChainID # ""
     /\ ret.version # ""
     /\ ret.order \in {"ORDERED", "UNORDERED"}) => Validate(heap[ret.path]) = "nil"

C15_Witness ==
    /\ ret.fn = "GenPath"
    /\ ret.srcChainID = "c0"
    /\ ret.dstChainID = "c1"
    /\ ret.version # ""
    /\ ret.order = "ORDERED"
    /\ heap[ret.path].Src.ClientID = "zzzzzzzzzz"
    /\ heap[ret.path].Dst.ChannelID = "aaaaaaaaaa"
    /\ Validate(heap[ret.path]) = "nil"

\* C17: End returns Dst when Dst's chain ID is the argument, else Src when
\* Src's is, else a new empty PathEnd, and leaves the Path as it was.
C17_EndPrefersDst ==
    /\ [](ret.fn = "End" =>
            LET path == heap[ret.path] IN
            /\ path.Dst.ChainID = ret.chainID =>
                  ret.which = "Dst" /\ ret.end = path.Dst
            /\ (path.Dst.ChainID # ret.chainID /\ path.Src.ChainID = ret.chainID) =>
                  ret.which = "Src" /\ ret.end = path.Src
            /\ (path.Dst.ChainID # ret.chainID /\ path.Src.ChainID # ret.chainID) =>
                  ret.which = "new" /\ ret.end = ZeroPathEnd)
    /\ [][ret'.fn = "End" => heap' = heap]_vars

C17_Witness ==
    /\ ret.fn = "End"
    /\ heap[ret.path].Src.ChainID = ret.chainID
    /\ heap[ret.path].Dst.ChainID = ret.chainID
    /\ heap[ret.path].Src # heap[ret.path].Dst
    /\ ret.which = "Dst"
    /\ ret.end = heap[ret.path].Dst

\* C16: the signing function called with an address other than From returns
\* an error and no transaction without reaching gethcrypto.Sign; Sign is only
\* ever reached for the address From.
C16_UnauthorizedSigner ==
    /\ [][(ret'.fn = "Signer" /\ ret'.address # opts.From) =>
            /\ ret'.err # "nil"
            /\ ret'.signed = NoTx
            /\ signLog' = signLog]_vars
    /\ [](\A c \in signLog : c.address = opts.From /\ PubkeyToAddress(c.prv) = c.address)

C16_Witness ==
    /\ ret.fn = "Signer"
    /\ ret.address = "0xA2"
    /\ opts.From = "0xA1"
    /\ ret.err = "not authorized to sign this account"
    /\ ret.signed = NoTx
    /\ \E c \in signLog : c.digest = Hash(authority.chainID, ret.tx)

====
